---- MODULE Spec2Model ----
(***************************************************************************)
(* Model of the per-project rooms of do-websocket.                         *)
(*                                                                         *)
(*   - UserWebSocket (src/src/websocket-bridge.ts, lines 796-1445): one    *)
(*     room with a runtime slot and an agents map, event listeners for     *)
(*     message / close / error, and the idle alarm.                        *)
(*   - the front router (src/src/index.ts) and the hibernatable            *)
(*     Broadcaster (src/src/broadcaster/broadcaster.ts), one room per      *)
(*     projectId.                                                          *)
(*                                                                         *)
(* A socket has a state of its own (OPEN, CLOSING after the room called    *)
(* close(), CLOSED once the peer is gone); the room learns of a departure  *)
(* only when the close or error listener runs, so a registered connection  *)
(* may have a socket that is no longer OPEN.                               *)
(***************************************************************************)
EXTENDS Integers, Sequences, FiniteSets, TLC

\* ------------------------------------------------------------------ bounds
MaxConns == 3      \* connections the UserWebSocket room accepts in one run
MaxReq == 1        \* distinct requestId values clients use
MaxClients == 3    \* sockets one Broadcaster room accepts in one run
MaxSharedClients == 2 \* sockets two Broadcaster rooms accept together in one run
MaxSeq == 2        \* numbered frames one connection sends in one run
MaxKeys == 2       \* API keys generateApiKey hands out in one run
MaxWorkers == 2    \* POST /api-keys requests in flight at once
MaxLogs == 1002    \* log entries the room stores in one run
MaxTime == 3       \* last reading of the clock, in ticks
HourTicks == 2     \* clock ticks in one hour
LogBurst == 501    \* the clock is read anew only every LogBurst log entries

\* ------------------------------------------------------------- vocabulary
NULL == 0                       \* `null` / an absent id field
NoField == "undefined"          \* an absent string field of an envelope
ConnIds == 1..MaxConns          \* crypto.randomUUID() values, in order of issue
ReqIds == 1..MaxReq
ProjectId == "P"                \* this.projectId of the UserWebSocket room
BIds == 1..MaxClients           \* client ids of the Broadcaster rooms, in order of issue

VARIABLES
    runtime,      \* UserWebSocket.runtime: id of the registered runtime, or NULL
    agents,       \* UserWebSocket.agents: ids in Map insertion order
    ctype,        \* clientType captured by the listeners of each accepted socket
    sock,         \* state of each server-side socket
    done,         \* the close or error listener of the socket has run
    nextId,       \* next connection id to hand out
    alarm,        \* an idle alarm is scheduled in state.storage
    outstanding,  \* history: requestId -> connection whose request was forwarded
                  \* to an agent and has not been answered since (NULL: none)
    accepted,     \* history: requestId -> that connection was the registered
                  \* runtime when its request was forwarded
    ev,           \* the event handled by the last step
    sent          \* frames delivered by the last step, in order of sending

uwsVars == <<runtime, agents, ctype, sock, done, nextId, alarm, outstanding, accepted,
             ev, sent>>

\* state of the Broadcaster rooms
VARIABLES
    bClients,   \* per room: Broadcaster.clients, ids in Map insertion order
    bKept,      \* per room, history: Broadcaster.clients of the same events in a
                \* room that is never evicted from memory
    bRoom,      \* per socket: the Durable Object that accepted it
    bProj,      \* per socket: ?projectId of the request that opened it
    bType,      \* per socket: attachment.type
    bState,     \* per socket: readyState
    bListed,    \* per socket: returned by state.getWebSockets()
    bProjectId, \* per room: Broadcaster.projectId
    bAlarm,     \* per room: a cleanup alarm is scheduled
    bNext,      \* next client id to hand out
    bEv,        \* the event handled by the last step
    bSent       \* frames delivered by the last step, in order of sending

bVars == <<bClients, bKept, bRoom, bProj, bType, bState, bListed, bProjectId, bAlarm,
           bNext, bEv, bSent>>

\* numbered frames: what each connection has sent and each has been forwarded
VARIABLES
    nsent,      \* per connection: numbered frames it has sent
    recv        \* per recipient and sender: the numbers of the sender's frames
                \* the recipient was forwarded, in order of arrival

oVars == <<nsent, recv>>

\* state of the key store and of the requests to the key-checking worker
VARIABLES
    databaseUrl, \* env.DATABASE_URL is configured
    rows,        \* the rows of table api_keys
    nextKey,     \* next value generateApiKey draws
    creating,    \* per worker request: the createApiKey call between its two queries
    gEv,         \* the request handled by the last step and its response
    gAuth,       \* the last request carried Authorization: Bearer <service key>
    creatingAuth, \* per worker request: whether it carried that header
    gVal,        \* the validateApiKey call of the last request, if it made one
    issued,      \* history: the plaintext keys returned by 201 responses
    revokedKeys  \* history: issued keys whose project got a 200 from DELETE

\* state of the log bucket store of a room
VARIABLES
    logBuckets,  \* durable storage: hourKey -> LogBucket.logs, newest first
    now,         \* the clock
    nextLog      \* id of the next StoredLog

lVars == <<logBuckets, now, nextLog>>

gVars == <<databaseUrl, rows, nextKey, creating, gEv, gAuth, creatingAuth, gVal, issued,
           revokedKeys>>

\* ------------------------------------------------------------------ frames
\* An envelope is the value JSON.parse yields for a JSON object; a raw frame
\* is the text on the wire.  `ws` marks a text that is not in the form
\* JSON.stringify produces (extra white space, other key order).
Envelope(type, requestId, runtimeId, query, data, projectId, message, clientId) ==
    [type |-> type, requestId |-> requestId, runtimeId |-> runtimeId,
     query |-> query, data |-> data, projectId |-> projectId,
     message |-> message, clientId |-> clientId]

NoEnvelope == Envelope(NoField, NULL, NULL, NoField, NoField, NoField, NoField, NULL)

Raw(k, ws, env) == [k |-> k, ws |-> ws, env |-> env]

EmptyText == Raw("empty", FALSE, NoEnvelope)      \* "" or a non-string payload
GarbageText == Raw("garbage", FALSE, NoEnvelope)  \* not JSON
NullText == Raw("null", FALSE, NoEnvelope)        \* the JSON text `null`

\* JSON.stringify of an envelope
Stringify(env) == Raw("json", FALSE, env)

\* JSON.parse: throws on text that is not JSON, yields null for `null`
ParseThrows(raw) == raw.k = "garbage"
ParseIsNull(raw) == raw.k = "null"
Parse(raw) == raw.env

QueryTypes == {"graphql_query", "get_docs"}
ReplyTypes == {"query_response", "docs"}

\* texts a client may put on the wire
ClientEnvelopes ==
    { Envelope("graphql_query", r, NULL, q, NoField, NoField, NoField, NULL) :
        r \in ReqIds, q \in {NoField, "users"} }
    \cup { Envelope("get_docs", r, NULL, NoField, NoField, NoField, NoField, NULL) :
        r \in ReqIds }
    \cup { Envelope(t, r, i, NoField, "payload", NoField, NoField, NULL) :
        t \in ReplyTypes, r \in ReqIds, i \in {NULL} \cup ConnIds }
    \cup { Envelope(t, NULL, NULL, NoField, NoField, NoField, NoField, NULL) :
        t \in {"ping", "error", "other", "check_agents"} }

ClientTexts ==
    {EmptyText, GarbageText, NullText}
    \cup { Raw("json", w, e) : w \in BOOLEAN, e \in ClientEnvelopes }

\* ------------------------------------------------------------------ events
NoText == Raw("none", FALSE, NoEnvelope)
\* what the last step handled: the listener or handler that ran (kind), the
\* connection it ran for, the text of a message event, the ?type= and HTTP
\* status of an upgrade, and - for a message with a requestId - the connection
\* that request was outstanding for when the message arrived and whether that
\* connection was the registered runtime when it made the request
Event(kind, conn, text, status, role, issuer, wasRuntime) ==
    [kind |-> kind, conn |-> conn, text |-> text, status |-> status,
     role |-> role, issuer |-> issuer, wasRuntime |-> wasRuntime]

Delivery(to, text) == [to |-> to, text |-> text]

\* socket.send: the frame reaches the peer only when the socket is OPEN
SendTo(c, env) ==
    IF c # NULL /\ sock[c] = "OPEN" THEN << Delivery(c, Stringify(env)) >> ELSE << >>

\* socket.send after the room called close() throws; on a socket whose peer
\* is gone it throws or silently drops the frame (thr picks the outcome)
SendThrows(c, thr) == sock[c] = "CLOSING" \/ (sock[c] = "CLOSED" /\ thr)

\* --------------------------------------------- UserWebSocket: helpers
RemoveAgent(seq, c) == SelectSeq(seq, LAMBDA x : x # c)
IsAgent(c) == \E i \in 1..Len(agents) : agents[i] = c

\* findConnection(clientId)
findConnection(clientId) ==
    IF runtime # NULL /\ runtime = clientId THEN runtime
    ELSE IF IsAgent(clientId) THEN clientId
    ELSE NULL

\* variant: the agent added last instead of the first one
getAvailableAgentLast ==
    IF Len(agents) = 0 THEN NULL ELSE agents[Len(agents)]

\* getAvailableAgent(): Array.from(this.agents.values())[0], no readyState test
getAvailableAgent ==
    IF Len(agents) = 0 THEN NULL ELSE agents[1]

\* sendError's loop guard, message.toLowerCase().includes("error"): none of
\* the four texts the room passes to sendError contains that word
IncludesError(message) ==
    message \notin {"Invalid message format", "Invalid JSON message format",
                    "Failed to forward message to data agent",
                    "Failed to forward docs request"}

\* sendError(clientId, message, requestId)
sendError(clientId, message, requestId) ==
    IF IncludesError(message) THEN << >>
    ELSE IF findConnection(clientId) = NULL THEN << >>
    ELSE SendTo(findConnection(clientId),
                Envelope("error", requestId, NULL, NoField, NoField, ProjectId, message, NULL))

\* generateDummyData(query, projectId): query.toLowerCase() throws a TypeError
\* when the envelope has no string `query`
DummyDataThrows(query) == query = NoField
generateDummyData(query) ==
    IF query = "users" THEN "fixture:users"
    ELSE IF query = "posts" THEN "fixture:posts"
    ELSE "fixture:default"

generateDummyDocs == "fixture:docs"

\* A handler's outcome: the frames it delivered and whether it threw
Outcome(out, thrown) == [out |-> out, thrown |-> thrown]

\* variant: the fallback response forgets the requestId of the query
forwardToDataAgentNoId(runtimeId, data, thr) ==
    IF data.type # "graphql_query" THEN Outcome(<< >>, FALSE)
    ELSE IF getAvailableAgent = NULL THEN
        IF DummyDataThrows(data.query) THEN Outcome(<< >>, TRUE)
        ELSE IF runtime # NULL THEN
            Outcome(SendTo(runtime,
                      Envelope("query_response", NULL, NULL, NoField,
                               generateDummyData(data.query), ProjectId, NoField, NULL)),
                    FALSE)
        ELSE Outcome(<< >>, FALSE)
    ELSE IF SendThrows(getAvailableAgent, thr) THEN
        Outcome(sendError(runtimeId, "Failed to forward message to data agent", data.requestId),
                FALSE)
    ELSE Outcome(SendTo(getAvailableAgent, [data EXCEPT !.runtimeId = runtimeId]), FALSE)

\* forwardToDataAgent(runtimeId, data)
forwardToDataAgent(runtimeId, data, thr) ==
    IF data.type # "graphql_query" THEN Outcome(<< >>, FALSE)
    ELSE IF getAvailableAgent = NULL THEN
        IF DummyDataThrows(data.query) THEN Outcome(<< >>, TRUE)
        ELSE IF runtime # NULL THEN
            Outcome(SendTo(runtime,
                      Envelope("query_response", data.requestId, NULL, NoField,
                               generateDummyData(data.query), ProjectId, NoField, NULL)),
                    FALSE)
        ELSE Outcome(<< >>, FALSE)
    ELSE IF SendThrows(getAvailableAgent, thr) THEN
        Outcome(sendError(runtimeId, "Failed to forward message to data agent", data.requestId),
                FALSE)
    ELSE Outcome(SendTo(getAvailableAgent, [data EXCEPT !.runtimeId = runtimeId]), FALSE)

\* forwardGetDocsToAgent(runtimeId, data)
forwardGetDocsToAgent(runtimeId, data, thr) ==
    IF data.type # "get_docs" THEN Outcome(<< >>, FALSE)
    ELSE IF getAvailableAgent = NULL THEN
        IF runtime # NULL THEN
            Outcome(SendTo(runtime,
                      Envelope("docs", data.requestId, NULL, NoField,
                               generateDummyDocs, ProjectId, NoField, NULL)),
                    FALSE)
        ELSE Outcome(<< >>, FALSE)
    ELSE IF SendThrows(getAvailableAgent, thr) THEN
        Outcome(sendError(runtimeId, "Failed to forward docs request", data.requestId), FALSE)
    ELSE Outcome(SendTo(getAvailableAgent, [data EXCEPT !.runtimeId = runtimeId]), FALSE)

\* variant: docs are delivered only for a request that is outstanding
forwardDocsToRuntimeMatched(agentId, data) ==
    IF data.type # "docs" THEN Outcome(<< >>, FALSE)
    ELSE IF runtime = NULL \/ data.requestId = NULL THEN Outcome(<< >>, FALSE)
    ELSE IF outstanding[data.requestId] = NULL THEN Outcome(<< >>, FALSE)
    ELSE Outcome(SendTo(runtime, data), FALSE)

\* forwardDocsToRuntime(agentId, data)
forwardDocsToRuntime(agentId, data) ==
    IF data.type # "docs" THEN Outcome(<< >>, FALSE)
    ELSE IF runtime = NULL THEN Outcome(<< >>, FALSE)
    ELSE Outcome(SendTo(runtime, data), FALSE)

\* variant: every reply is forwarded with the payload of the first one
forwardToRuntimeStale(agentId, data) ==
    IF data.type # "query_response" THEN Outcome(<< >>, FALSE)
    ELSE IF runtime = NULL THEN Outcome(<< >>, FALSE)
    ELSE Outcome(SendTo(runtime, [data EXCEPT !.data = "m1"]), FALSE)

\* variant: the reply goes back to the connection that sent it
forwardToRuntimeEcho(agentId, data) ==
    IF data.type # "query_response" THEN Outcome(<< >>, FALSE)
    ELSE Outcome(SendTo(agentId, data), FALSE)

\* forwardToRuntime(agentId, data)
forwardToRuntime(agentId, data) ==
    IF data.type # "query_response" THEN Outcome(<< >>, FALSE)
    ELSE IF runtime = NULL THEN Outcome(<< >>, FALSE)
    ELSE Outcome(SendTo(runtime, data), FALSE)

\* handlePing(senderId)
handlePing(senderId) ==
    IF findConnection(senderId) = NULL THEN << >>
    ELSE SendTo(findConnection(senderId),
                Envelope("pong", NULL, NULL, NoField, NoField, NoField, NoField, NULL))

\* variant: an unknown type is answered with an error envelope
handleUnknownMessageEcho(senderId, data) ==
    SendTo(senderId, Envelope("error", NULL, NULL, NoField, NoField, ProjectId,
                              "Unknown message type", NULL))

\* handleErrorMessage / handleUnknownMessage: log and drop
handleErrorMessage(senderId, data) == << >>
handleUnknownMessage(senderId, data) == << >>

\* the switch of handleMessage
Dispatch(senderId, data, thr) ==
    CASE data.type = "graphql_query" -> forwardToDataAgent(senderId, data, thr)
      [] data.type = "get_docs" -> forwardGetDocsToAgent(senderId, data, thr)
      [] data.type = "docs" -> forwardDocsToRuntime(senderId, data)
      [] data.type = "query_response" -> forwardToRuntime(senderId, data)
      [] data.type = "ping" -> Outcome(handlePing(senderId), FALSE)
      [] data.type = "error" -> Outcome(handleErrorMessage(senderId, data), FALSE)
      [] OTHER -> Outcome(handleUnknownMessage(senderId, data), FALSE)

\* handleMessage(senderId, message): the frames the room delivers
handleMessage(senderId, message, thr) ==
    IF message.k = "empty" THEN sendError(senderId, "Invalid message format", NULL)
    ELSE IF ParseThrows(message) \/ ParseIsNull(message) THEN
        \* JSON.parse throws, or `data.type` on null throws: both reach the catch
        sendError(senderId, "Invalid JSON message format", NULL)
    ELSE IF Dispatch(senderId, Parse(message), thr).thrown THEN
        Dispatch(senderId, Parse(message), thr).out
            \o sendError(senderId, "Invalid JSON message format", NULL)
    ELSE Dispatch(senderId, Parse(message), thr).out

\* --------------------------------------------- UserWebSocket: actions
UpgradeTypes == {"runtime", "agent", "admin", NoField}

\* status of handleWebSocketUpgrade for a request with/without a websocket
\* Upgrade header, ?type=clientType and with/without ?projectId
upgradeStatus(hasUpgrade, clientType, hasProjectId) ==
    IF ~hasUpgrade THEN 426
    ELSE IF clientType \notin {"runtime", "agent"} THEN 400
    ELSE IF ~hasProjectId THEN 400
    ELSE 101

\* variant: the replaced runtime's socket is left as it is
closeOldRuntimeKeep(s) == s

\* this.runtime.socket.close(1000, ...) on the runtime being replaced
closeOldRuntime(s) ==
    IF runtime # NULL /\ s[runtime] = "OPEN" THEN [s EXCEPT ![runtime] = "CLOSING"] ELSE s

\* the welcome frame
Welcome(clientId, clientType) ==
    Envelope("connected", NULL, NULL, NoField, NoField, ProjectId, clientType, clientId)

\* handleWebSocketUpgrade(request); welcomeThrows: server.send(welcome) throws,
\* which the handler answers with 500 after the connection was registered (the
\* client half of the pair is then never handed out, so the peer is gone)
Upgrade(hasUpgrade, clientType, hasProjectId, welcomeThrows) ==
    /\ UNCHANGED <<bVars, oVars, gVars, lVars>>
    /\ welcomeThrows => upgradeStatus(hasUpgrade, clientType, hasProjectId) = 101
    /\ LET status == IF welcomeThrows THEN 500
                     ELSE upgradeStatus(hasUpgrade, clientType, hasProjectId)
           clientId == nextId
       IN  IF status \notin {101, 500} THEN
               /\ ev' = Event("upgrade", NULL, NoText, status, clientType, NULL, FALSE)
               /\ sent' = << >>
               /\ UNCHANGED <<runtime, agents, ctype, sock, done, nextId, alarm, outstanding, accepted>>
           ELSE
               /\ nextId <= MaxConns
               /\ nextId' = nextId + 1
               /\ ctype' = [ctype EXCEPT ![clientId] = clientType]
               /\ sock' = [(IF clientType = "runtime" THEN closeOldRuntime(sock) ELSE sock)
                           EXCEPT ![clientId] = IF welcomeThrows THEN "CLOSED" ELSE "OPEN"]
               /\ runtime' = IF clientType = "runtime" THEN clientId ELSE runtime
               /\ agents' = IF clientType = "agent" THEN Append(agents, clientId) ELSE agents
               /\ ev' = Event("upgrade", clientId, NoText, status, clientType, NULL, FALSE)
               /\ sent' = IF welcomeThrows THEN << >>
                          ELSE << Delivery(clientId, Stringify(Welcome(clientId, clientType))) >>
               /\ UNCHANGED <<done, alarm, outstanding, accepted>>

\* history of forwarded requests: a query delivered to an agent becomes
\* outstanding for its sender, a reply delivered to the runtime settles it
Settle(o, senderId, data, out) ==
    IF data.requestId = NULL \/ out = << >> THEN o
    ELSE IF data.type \in QueryTypes /\ out[1].text.env.type \in QueryTypes
        THEN [o EXCEPT ![data.requestId] = senderId]
    ELSE IF data.type \in ReplyTypes /\ out[1].text.env.type \in ReplyTypes
        THEN [o EXCEPT ![data.requestId] = NULL]
    ELSE o

\* the connection the requestId of an arriving message is outstanding for
IssuerOf(text) ==
    IF text.k = "json" /\ Parse(text).requestId # NULL
    THEN outstanding[Parse(text).requestId] ELSE NULL

\* the outcome of a failing send is open only when the first agent's peer is gone
ThrowIsOpen(text) ==
    /\ text.k = "json"
    /\ Parse(text).type \in QueryTypes
    /\ getAvailableAgent # NULL
    /\ sock[getAvailableAgent] = "CLOSED"

\* the 'message' listener of connection c: handleMessage(clientId, event.data)
MessageEvent(c, text, thr) ==
    /\ thr => ThrowIsOpen(text)
    /\ ctype[c] # NoField
    /\ ~done[c]
    /\ sock[c] \in {"OPEN", "CLOSING"}
    /\ LET out == handleMessage(c, text, thr)
       IN  /\ ev' = Event("message", c, text, NULL, NoField, IssuerOf(text),
                            IssuerOf(text) # NULL /\ accepted[Parse(text).requestId])
           /\ sent' = out
           /\ outstanding' = IF text.k = "json"
                             THEN Settle(outstanding, c, Parse(text), out)
                             ELSE outstanding
           /\ accepted' = IF text.k = "json"
                          THEN [r \in ReqIds |->
                                  IF outstanding'[r] = outstanding[r] THEN accepted[r]
                                  ELSE outstanding'[r] # NULL /\ c = runtime]
                          ELSE accepted
    /\ UNCHANGED <<runtime, agents, ctype, sock, done, nextId, alarm>>

Message(c, text, thr) ==
    /\ UNCHANGED <<bVars, oVars, gVars, lVars>>
    /\ MessageEvent(c, text, thr)

\* the peer of connection c goes away (closing handshake or broken transport);
\* the socket stops being OPEN before any listener of the room runs
PeerClose(c) ==
    /\ UNCHANGED <<bVars, oVars, gVars, lVars>>
    /\ sock[c] \in {"OPEN", "CLOSING"}
    /\ sock' = [sock EXCEPT ![c] = "CLOSED"]
    /\ ev' = Event("peer_close", c, NoText, NULL, NoField, NULL, FALSE)
    /\ sent' = << >>
    /\ UNCHANGED <<runtime, agents, ctype, done, nextId, alarm, outstanding, accepted>>

\* variant: scheduleCleanupIfEmpty without the deleteAlarm branch
handleDisconnectionNoDelete(clientId, clientType) ==
    /\ runtime' = IF clientType = "runtime" THEN NULL ELSE runtime
    /\ agents' = IF clientType = "agent" THEN RemoveAgent(agents, clientId) ELSE agents
    /\ alarm' = (alarm \/ (runtime' = NULL /\ Len(agents') = 0))

\* handleDisconnection(clientId, clientType) followed by scheduleCleanupIfEmpty()
handleDisconnection(clientId, clientType) ==
    /\ runtime' = IF clientType = "runtime" THEN NULL ELSE runtime
    /\ agents' = IF clientType = "agent" THEN RemoveAgent(agents, clientId) ELSE agents
    /\ alarm' = (runtime' = NULL /\ Len(agents') = 0)

\* the 'close' listener of connection c
Close(c) ==
    /\ UNCHANGED <<bVars, oVars, gVars, lVars>>
    /\ sock[c] = "CLOSED"
    /\ ~done[c]
    /\ handleDisconnection(c, ctype[c])
    /\ done' = [done EXCEPT ![c] = TRUE]
    /\ ev' = Event("close", c, NoText, NULL, NoField, NULL, FALSE)
    /\ sent' = << >>
    /\ UNCHANGED <<ctype, sock, nextId, outstanding, accepted>>

\* the 'error' listener of connection c
Error(c) ==
    /\ UNCHANGED <<bVars, oVars, gVars, lVars>>
    /\ sock[c] = "CLOSED"
    /\ ~done[c]
    /\ handleDisconnection(c, ctype[c])
    /\ done' = [done EXCEPT ![c] = TRUE]
    /\ ev' = Event("error", c, NoText, NULL, NoField, NULL, FALSE)
    /\ sent' = << >>
    /\ UNCHANGED <<ctype, sock, nextId, outstanding, accepted>>

\* alarm(): the scheduled alarm fires; the handler only logs
Alarm ==
    /\ UNCHANGED <<bVars, oVars, gVars, lVars>>
    /\ alarm
    /\ alarm' = FALSE
    /\ ev' = Event("alarm", NULL, NoText, NULL, NoField, NULL, FALSE)
    /\ sent' = << >>
    /\ UNCHANGED <<runtime, agents, ctype, sock, done, nextId, outstanding, accepted>>

InitRoom ==
    /\ runtime = NULL
    /\ agents = << >>
    /\ ctype = [c \in ConnIds |-> NoField]
    /\ sock = [c \in ConnIds |-> "NONE"]
    /\ done = [c \in ConnIds |-> FALSE]
    /\ nextId = 1
    /\ alarm = FALSE
    /\ outstanding = [r \in ReqIds |-> NULL]
    /\ accepted = [r \in ReqIds |-> FALSE]
    /\ ev = Event("init", NULL, NoText, NULL, NoField, NULL, FALSE)
    /\ sent = << >>

NextRoom ==
    \/ \E h \in BOOLEAN, t \in UpgradeTypes, p \in BOOLEAN, w \in BOOLEAN : Upgrade(h, t, p, w)
    \/ \E c \in ConnIds, text \in ClientTexts, thr \in BOOLEAN : Message(c, text, thr)
    \/ \E c \in ConnIds : PeerClose(c)
    \/ \E c \in ConnIds : Close(c)
    \/ \E c \in ConnIds : Error(c)
    \/ Alarm

\* ------------------------------------- UserWebSocket: numbered frames
\* Clients number the frames they send: the k-th numbered frame of a connection
\* carries StampNames[k] in its data field (a query keeps extra fields when it
\* is forwarded: { ...queryMessage, runtimeId }).
StampNames == << "m1", "m2", "m3", "m4" >>
StampNo(d) == IF \E k \in 1..Len(StampNames) : StampNames[k] = d
              THEN CHOOSE k \in 1..Len(StampNames) : StampNames[k] = d
              ELSE 0

OrderTypes == {"graphql_query", "query_response"}

OrderText(t, k) ==
    Raw("json", FALSE,
        Envelope(t, 1, NULL, IF t = "graphql_query" THEN "users" ELSE NoField,
                 StampNames[k], NoField, NoField, NULL))

\* the numbers of the frames of `out` that forward a frame of type t to r
ForwardsTo(r, t, out) ==
    LET hits == SelectSeq(out, LAMBDA d : d.to = r /\ Parse(d.text).type = t)
    IN  [i \in 1..Len(hits) |-> Parse(hits[i].text).data]

RECURSIVE SumTo(_)
SumTo(n) == IF n = 0 THEN 0 ELSE nsent[n] + SumTo(n - 1)
\* numbered frames sent so far by all connections
SentSoFar == SumTo(MaxConns)

\* the 'message' listener of connection c for its next numbered frame
OrderedMessage(c, t, thr) ==
    /\ UNCHANGED <<bVars, gVars, lVars>>
    /\ nsent[c] < MaxSeq
    /\ SentSoFar < MaxSeq + 1
    /\ MessageEvent(c, OrderText(t, nsent[c] + 1), thr)
    /\ nsent' = [nsent EXCEPT ![c] = @ + 1]
    /\ recv' = [r \in ConnIds |-> [s \in ConnIds |->
                 IF s = c
                 THEN recv[r][s] \o ForwardsTo(r, t, handleMessage(c, OrderText(t, nsent[c] + 1), thr))
                 ELSE recv[r][s]]]

InitOrder ==
    /\ nsent = [c \in ConnIds |-> 0]
    /\ recv = [r \in ConnIds |-> [s \in ConnIds |-> << >>]]

NextOrder ==
    \/ \E t \in UpgradeTypes : Upgrade(TRUE, t, TRUE, FALSE)
    \/ \E c \in ConnIds, t \in OrderTypes, thr \in BOOLEAN : OrderedMessage(c, t, thr)
    \/ \E c \in ConnIds : PeerClose(c)
    \/ \E c \in ConnIds : Close(c)
    \/ \E c \in ConnIds : Error(c)
    \/ Alarm

\* ================================================================ Broadcaster
\* The front router (src/src/index.ts) and the hibernatable Broadcaster rooms
\* (src/src/broadcaster/broadcaster.ts), one Durable Object per projectId.

\* projectId values of request URLs, as character sequences
ProjP == << "p" >>
ProjQ == << "q", "_", "1" >>
NoProj == << >>                                 \* no ?projectId= (or an empty one)
BadProj == << "p", "!" >>
LongProj == [i \in 1..65 |-> "p"]
UrlProjectIds == {NoProj, ProjP, ProjQ, BadProj, LongProj}

\* the characters of [a-zA-Z0-9_-] in use
IdChars == {"p", "q", "1", "_", "-", "d", "e", "m", "o", "r"}

\* variant: the pattern without its upper length bound, /^[a-zA-Z0-9_-]+$/
isValidProjectIdNoMax(projectId) ==
    /\ Len(projectId) >= 1
    /\ \A i \in 1..Len(projectId) : projectId[i] \in IdChars

\* isValidProjectId: /^[a-zA-Z0-9_-]{1,64}$/
isValidProjectId(projectId) ==
    /\ Len(projectId) >= 1
    /\ Len(projectId) <= 64
    /\ \A i \in 1..Len(projectId) : projectId[i] \in IdChars

\* env.USER_WEBSOCKET.idFromName(projectId): the same name gives the same id,
\* different names give different ids
idFromNameShared(name) == [do |-> ProjP]
idFromName(name) == [do |-> name]

Rooms == { [do |-> n] : n \in {ProjP, ProjQ} }
NoRoom == [do |-> NoProj]

\* status the router answers without contacting a room, or 0 when it forwards
routerStatus(projectId) ==
    IF projectId = NoProj THEN 400
    ELSE IF ~isValidProjectId(projectId) THEN 400
    ELSE 0

BTypes == {"runtime", "data-agent", "admin"}

\* a BroadcastMessage on the wire: its `from` object (if any) with the id the
\* sender claims, and its `to` object
BMsg(k, hasFrom, fromId, toType, toId) ==
    [k |-> k, hasFrom |-> hasFrom, fromId |-> fromId, toType |-> toType, toId |-> toId]

BGarbage == BMsg("garbage", FALSE, NULL, NoField, NULL)
BEmpty == BMsg("empty", FALSE, NULL, NoField, NULL)    \* "" : !messageStr
BNoMsg == BMsg("none", FALSE, NULL, NoField, NULL)
BSystem(k) == BMsg(k, TRUE, NULL, NoField, NULL)     \* from: {type: 'system'}

\* the welcome frame: payload.clientCount is this.clients.size after the insert
BWelcome(clientCount) ==
    [k |-> "connected", hasFrom |-> TRUE, fromId |-> NULL, toType |-> NoField,
     toId |-> NULL, clientCount |-> clientCount]

BClientMsgs ==
    {BGarbage, BEmpty} \cup
    { BMsg("json", f[1], f[2], t[1], t[2]) :
        f \in {<<FALSE, NULL>>, <<TRUE, NULL>>, <<TRUE, 1>>},
        t \in ({<<NoField, NULL>>, <<"admin", 1>>}
                 \cup { <<tt, NULL>> : tt \in BTypes }
                 \cup { <<NoField, ti>> : ti \in BIds }) }

BEvent(kind, room, conn, msg, status) ==
    [kind |-> kind, room |-> room, conn |-> conn, msg |-> msg, status |-> status]

\* ascending sequence of a finite set of ids
RECURSIVE SeqOfSet(_)
SeqOfSet(S) ==
    IF S = {} THEN << >>
    ELSE LET m == CHOOSE x \in S : \A y \in S : x <= y
         IN  << m >> \o SeqOfSet(S \ {m})

InSeq(seq, x) == \E i \in 1..Len(seq) : seq[i] = x

\* state.getWebSockets() of a room
getWebSockets(room) == { c \in BIds : bRoom[c] = room /\ bListed[c] }

\* clientCount in the answer of Broadcaster.fetch for /health: this.clients.size
healthClientCount(room) == Len(bClients[room])

\* syncClientsFromWebSockets(): add the listed sockets that are missing from
\* the table, then delete the entries whose socket is no longer listed
syncTable(table, room) ==
    LET active == getWebSockets(room)
        added == table \o SeqOfSet({ c \in active : ~InSeq(table, c) })
    IN  SelectSeq(added, LAMBDA c : c \in active)

syncClientsFromWebSockets(room) == syncTable(bClients[room], room)

BOpen(c) == bState[c] = "OPEN"

\* variant: a message addressed to an id goes to every other open client
RecipientsIdToAll(table, senderId, msg) ==
    IF msg.toId # NULL \/ msg.toType # NoField THEN
        (IF msg.toId # NULL
         THEN SelectSeq(table, LAMBDA c : c # senderId /\ BOpen(c))
         ELSE SelectSeq(table, LAMBDA c : c # senderId /\ BOpen(c) /\ bType[c] = msg.toType))
        \o SelectSeq(table, LAMBDA c : c # senderId /\ bType[c] = "admin" /\ BOpen(c))
    ELSE
        SelectSeq(table, LAMBDA c : c # senderId /\ BOpen(c))

\* variant: routing by type without the clientId !== senderId test
RecipientsTypeWithSender(table, senderId, msg) ==
    IF msg.toId # NULL \/ msg.toType # NoField THEN
        (IF msg.toId # NULL
         THEN (IF InSeq(table, msg.toId) /\ BOpen(msg.toId) THEN << msg.toId >> ELSE << >>)
         ELSE SelectSeq(table, LAMBDA c : BOpen(c) /\ bType[c] = msg.toType))
        \o SelectSeq(table, LAMBDA c : c # senderId /\ bType[c] = "admin" /\ BOpen(c))
    ELSE
        SelectSeq(table, LAMBDA c : c # senderId /\ BOpen(c))

\* variant: broadcastToOthers stops after the first recipient
RecipientsBroadcastFirst(table, senderId, msg) ==
    IF msg.toId # NULL \/ msg.toType # NoField THEN
        (IF msg.toId # NULL
         THEN (IF InSeq(table, msg.toId) /\ BOpen(msg.toId) THEN << msg.toId >> ELSE << >>)
         ELSE SelectSeq(table, LAMBDA c : c # senderId /\ BOpen(c) /\ bType[c] = msg.toType))
        \o SelectSeq(table, LAMBDA c : c # senderId /\ bType[c] = "admin" /\ BOpen(c))
    ELSE
        LET others == SelectSeq(table, LAMBDA c : c # senderId /\ BOpen(c))
        IN  IF others = << >> THEN << >> ELSE << others[1] >>

\* variant: routed messages without the copies for admins
RecipientsNoMonitor(table, senderId, msg) ==
    IF msg.toId # NULL \/ msg.toType # NoField THEN
        (IF msg.toId # NULL
         THEN (IF InSeq(table, msg.toId) /\ BOpen(msg.toId) THEN << msg.toId >> ELSE << >>)
         ELSE SelectSeq(table, LAMBDA c : c # senderId /\ BOpen(c) /\ bType[c] = msg.toType))
    ELSE
        SelectSeq(table, LAMBDA c : c # senderId /\ BOpen(c))

\* the recipients of a parsed message, in order of sending
Recipients(table, senderId, msg) ==
    IF msg.toId # NULL \/ msg.toType # NoField THEN
        (IF msg.toId # NULL
         THEN (IF InSeq(table, msg.toId) /\ BOpen(msg.toId) THEN << msg.toId >> ELSE << >>)
         ELSE SelectSeq(table, LAMBDA c : c # senderId /\ BOpen(c) /\ bType[c] = msg.toType))
        \* broadcastToadminOptimized
        \o SelectSeq(table, LAMBDA c : c # senderId /\ bType[c] = "admin" /\ BOpen(c))
    ELSE
        \* broadcastToOthers
        SelectSeq(table, LAMBDA c : c # senderId /\ BOpen(c))

\* the frame sent on: from.id is overwritten when the message has a from object
Stamped(senderId, msg) ==
    IF msg.hasFrom THEN [msg EXCEPT !.fromId = senderId] ELSE msg

BDeliverAll(seq, msg) == [i \in 1..Len(seq) |-> Delivery(seq[i], msg)]

\* Broadcaster.sendError(clientId, message)
bSendError(table, clientId) ==
    IF ~InSeq(table, clientId) \/ ~BOpen(clientId) THEN << >>
    ELSE << Delivery(clientId, BSystem("error")) >>

\* fetch of the router, then Broadcaster.fetch and handleWebSocketUpgrade
BConnect(projectId, hasUpgrade, type) ==
    /\ UNCHANGED <<uwsVars, oVars, gVars, lVars>>
    /\ LET room == idFromName(projectId)
           status == IF routerStatus(projectId) # 0 THEN routerStatus(projectId)
                     ELSE IF ~hasUpgrade THEN 426
                     ELSE IF type \notin BTypes THEN 400
                     ELSE 101
           clientId == bNext
       IN  IF routerStatus(projectId) # 0 THEN
               /\ bEv' = BEvent("connect", NoRoom, NULL, BNoMsg, status)
               /\ bSent' = << >>
               /\ UNCHANGED <<bClients, bKept, bRoom, bProj, bType, bState, bListed,
                              bProjectId, bAlarm, bNext>>
           ELSE IF status # 101 THEN
               /\ bProjectId' = [bProjectId EXCEPT ![room] = projectId]
               /\ bEv' = BEvent("connect", room, NULL, BNoMsg, status)
               /\ bSent' = << >>
               /\ UNCHANGED <<bClients, bKept, bRoom, bProj, bType, bState, bListed, bAlarm,
                              bNext>>
           ELSE
               /\ bNext <= MaxClients
               /\ bNext' = bNext + 1
               /\ bProjectId' = [bProjectId EXCEPT ![room] = projectId]
               /\ bRoom' = [bRoom EXCEPT ![clientId] = room]
               /\ bProj' = [bProj EXCEPT ![clientId] = projectId]
               /\ bType' = [bType EXCEPT ![clientId] = type]
               /\ bState' = [bState EXCEPT ![clientId] = "OPEN"]
               /\ bListed' = [bListed EXCEPT ![clientId] = TRUE]
               /\ bClients' = [bClients EXCEPT ![room] = Append(@, clientId)]
               /\ bKept' = [bKept EXCEPT ![room] = Append(@, clientId)]
               /\ bEv' = BEvent("connect", room, clientId, BNoMsg, status)
               /\ bSent' = << Delivery(clientId, BWelcome(Len(bClients'[room]))) >>
               /\ UNCHANGED bAlarm

\* webSocketMessage(ws, message)
BMessage(c, msg) ==
    /\ UNCHANGED <<uwsVars, oVars, gVars, lVars>>
    /\ bListed[c]
    /\ BOpen(c)
    /\ LET room == bRoom[c]
           table == syncClientsFromWebSockets(room)
       IN  /\ bClients' = [bClients EXCEPT ![room] = table]
           /\ bKept' = [bKept EXCEPT ![room] = syncTable(@, room)]
           /\ bEv' = BEvent("message", room, c, msg, NULL)
           /\ bSent' = IF msg.k = "empty" THEN << >>
                       ELSE IF msg.k = "garbage" THEN bSendError(table, c)
                       ELSE BDeliverAll(Recipients(table, c, msg), Stamped(c, msg))
    /\ UNCHANGED <<bRoom, bProj, bType, bState, bListed, bProjectId, bAlarm, bNext>>

\* the peer of socket c goes away
BPeerClose(c) ==
    /\ UNCHANGED <<uwsVars, oVars, gVars, lVars>>
    /\ BOpen(c)
    /\ bState' = [bState EXCEPT ![c] = "CLOSED"]
    /\ bEv' = BEvent("peer_close", bRoom[c], c, BNoMsg, NULL)
    /\ bSent' = << >>
    /\ UNCHANGED <<bClients, bKept, bRoom, bProj, bType, bListed, bProjectId, bAlarm, bNext>>

\* webSocketClose(ws, ...): delete from the table, scheduleCleanup() when it is empty
BClose(c) ==
    /\ UNCHANGED <<uwsVars, oVars, gVars, lVars>>
    /\ bListed[c]
    /\ bState[c] = "CLOSED"
    /\ LET room == bRoom[c]
           table == SelectSeq(bClients[room], LAMBDA x : x # c)
       IN  /\ bClients' = [bClients EXCEPT ![room] = table]
           /\ bKept' = [bKept EXCEPT ![room] = SelectSeq(@, LAMBDA x : x # c)]
           /\ bAlarm' = [bAlarm EXCEPT ![room] = @ \/ Len(table) = 0]
           /\ bEv' = BEvent("close", room, c, BNoMsg, NULL)
    /\ bListed' = [bListed EXCEPT ![c] = FALSE]
    /\ bSent' = << >>
    /\ UNCHANGED <<bRoom, bProj, bType, bState, bProjectId, bNext>>

\* webSocketError(ws, error): logs; the broken socket leaves getWebSockets()
BError(c) ==
    /\ UNCHANGED <<uwsVars, oVars, gVars, lVars>>
    /\ bListed[c]
    /\ bState[c] = "CLOSED"
    /\ bListed' = [bListed EXCEPT ![c] = FALSE]
    /\ bEv' = BEvent("error", bRoom[c], c, BNoMsg, NULL)
    /\ bSent' = << >>
    /\ UNCHANGED <<bClients, bKept, bRoom, bProj, bType, bState, bProjectId, bAlarm, bNext>>

\* the room is evicted between events: its in-memory table is lost
BHibernate(room) ==
    /\ UNCHANGED <<uwsVars, oVars, gVars, lVars>>
    /\ bClients[room] # << >>
    /\ bClients' = [bClients EXCEPT ![room] = << >>]
    /\ bEv' = BEvent("hibernate", room, NULL, BNoMsg, NULL)
    /\ bSent' = << >>
    /\ UNCHANGED <<bKept, bRoom, bProj, bType, bState, bListed, bProjectId, bAlarm, bNext>>

\* Broadcaster.alarm(): the cleanup alarm fires
BAlarmFires(room) ==
    /\ UNCHANGED <<uwsVars, oVars, gVars, lVars>>
    /\ bAlarm[room]
    /\ bAlarm' = [bAlarm EXCEPT ![room] = FALSE]
    /\ bEv' = BEvent("alarm", room, NULL, BNoMsg, NULL)
    /\ bSent' = << >>
    /\ UNCHANGED <<bClients, bKept, bRoom, bProj, bType, bState, bListed, bProjectId, bNext>>

InitBroadcaster ==
    /\ bClients = [r \in Rooms |-> << >>]
    /\ bKept = [r \in Rooms |-> << >>]
    /\ bRoom = [c \in BIds |-> NoRoom]
    /\ bProj = [c \in BIds |-> NoProj]
    /\ bType = [c \in BIds |-> NoField]
    /\ bState = [c \in BIds |-> "NONE"]
    /\ bListed = [c \in BIds |-> FALSE]
    /\ bProjectId = [r \in Rooms |-> NoProj]
    /\ bAlarm = [r \in Rooms |-> FALSE]
    /\ bNext = 1
    /\ bEv = BEvent("init", NoRoom, NULL, BNoMsg, NULL)
    /\ bSent = << >>

NextBroadcaster ==
    \/ \E p \in UrlProjectIds, h \in BOOLEAN, t \in BTypes \cup {NoField} :
           bNext <= MaxSharedClients /\ BConnect(p, h, t)
    \/ \E c \in BIds, m \in BClientMsgs : BMessage(c, m)
    \/ \E c \in BIds : BPeerClose(c)
    \/ \E c \in BIds : BClose(c)
    \/ \E c \in BIds : BError(c)
    \/ \E r \in Rooms : BHibernate(r)
    \/ \E r \in Rooms : BAlarmFires(r)

\* one room: every request is a well-formed upgrade for the same project
NextRouting ==
    \/ \E t \in BTypes : BConnect(ProjP, TRUE, t)
    \/ \E c \in BIds, m \in BClientMsgs : BMessage(c, m)
    \/ \E c \in BIds : BPeerClose(c)
    \/ \E c \in BIds : BClose(c)
    \/ \E c \in BIds : BError(c)
    \/ BHibernate(idFromName(ProjP))
    \/ BAlarmFires(idFromName(ProjP))

\* ======================================================== routers and keys
\* The front router (src/src/index.ts), the key-checking router
\* (src/unnamed/part_003) and the API key service over the api_keys table
\* (src/src/api-keys/service.ts, src/src/db/schema.sql).

Demo == << "d", "e", "m", "o" >>
DemoProd == << "d", "e", "m", "o", "-", "p", "r", "o", "d" >>
Workers == 1..MaxWorkers                        \* concurrent POST /api-keys requests
Methods == {"GET", "OPTIONS"}
Paths == {"/health", "/websocket"}

\* API keys: a prefix and the random hex part
NoKey == [prefix |-> "", hex |-> << >>]         \* null / '' : no key supplied
\* generateApiKey(): `sa_live_${randomHex}`, the n-th draw of the random source
generateApiKey(n) == [prefix |-> "sa_live_", hex |-> << n \div 2, n % 2 >>]
BadFormatKey == [prefix |-> "pk_live_", hex |-> << 0, 1 >>]
TestKey == [prefix |-> "sa_test_", hex |-> << 0, 1 >>]
KeyInputs == {NoKey, BadFormatKey, TestKey} \cup { generateApiKey(n) : n \in 1..MaxKeys }
HeaderKeyInputs == {NoKey, generateApiKey(1)}     \* values of the x-api-key header

\* hashApiKey: SHA-256 of the key, hex encoded
hashApiKey(apiKey) == [sha256 |-> apiKey]
\* getKeyPrefix: apiKey.substring(0, 12), the prefix and the first hex characters
getKeyPrefix(apiKey) == [prefix |-> apiKey.prefix, hex |-> SubSeq(apiKey.hex, 1, 1)]

\* a row of api_keys as INSERT writes it (is_active DEFAULT true)
Row(projectId, apiKey) ==
    [project_id |-> projectId, key_hash |-> hashApiKey(apiKey),
     key_prefix |-> getKeyPrefix(apiKey), is_active |-> TRUE]

\* SELECT * FROM api_keys WHERE project_id = $1 AND is_active = true
activeRows(projectId) == { r \in rows : r.project_id = projectId /\ r.is_active }

\* variant: the existence check never finds a row
hasActiveKeyNever(projectId) == FALSE
\* createApiKey: existing.length > 0
hasActiveKey(projectId) == activeRows(projectId) # {}

\* variant: project_id without the UNIQUE constraint
uniqueViolationNever(projectId) == FALSE
\* project_id VARCHAR(255) NOT NULL UNIQUE: an INSERT for a project_id already
\* in the table is rejected
uniqueViolation(projectId) == \E r \in rows : r.project_id = projectId

\* variant: the lookup matches the key hash in any project's row
validateApiKeyAnyProject(projectId, apiKey) ==
    IF apiKey = NoKey \/ projectId = NoProj THEN FALSE
    ELSE IF apiKey.prefix \notin {"sa_live_", "sa_test_"} THEN FALSE
    ELSE \E r \in rows : r.key_hash = hashApiKey(apiKey) /\ r.is_active

\* validateApiKey(connectionString, projectId, apiKey).valid
validateApiKey(projectId, apiKey) ==
    IF apiKey = NoKey \/ projectId = NoProj THEN FALSE
    ELSE IF apiKey.prefix \notin {"sa_live_", "sa_test_"} THEN FALSE
    ELSE \E r \in rows : /\ r.project_id = projectId
                         /\ r.key_hash = hashApiKey(apiKey)
                         /\ r.is_active

\* a validateApiKey call: its result, whether it queried the store, and whether
\* the query failed
Val(called, valid, queried, failed) ==
    [called |-> called, valid |-> valid, queried |-> queried, failed |-> failed]
NoVal == Val(FALSE, FALSE, FALSE, FALSE)

\* variant: every project skips validation
shouldSkipValidationAll(projectId) == TRUE
\* skipValidationProjects.includes(projectId)
shouldSkipValidation(projectId) == projectId \in {Demo, DemoProd}

\* validateApiKey with a store that answers or fails: the early returns come
\* before the query, a failing query is caught and gives valid: false
validateApiKeyOutcome(projectId, apiKey, storeFails) ==
    IF apiKey = NoKey \/ projectId = NoProj THEN Val(TRUE, FALSE, FALSE, FALSE)
    ELSE IF apiKey.prefix \notin {"sa_live_", "sa_test_"} THEN Val(TRUE, FALSE, FALSE, FALSE)
    ELSE IF storeFails THEN Val(TRUE, FALSE, TRUE, TRUE)
    ELSE Val(TRUE, validateApiKey(projectId, apiKey), TRUE, FALSE)

\* the request handled by the last step and its response; room is the Durable
\* Object the request was forwarded to, status 0 stands for the room's answer
\* (or, for a create, for a request still between its two queries)
GEvent(kind, method, path, project, apiKey, status, room, plaintext) ==
    [kind |-> kind, method |-> method, path |-> path, project |-> project,
     apiKey |-> apiKey, status |-> status, room |-> room, plaintext |-> plaintext]

\* fetch of src/src/index.ts
RouterFetch(method, path, projectId) ==
    /\ UNCHANGED <<uwsVars, bVars, oVars, lVars>>
    /\ LET status == IF method = "OPTIONS" THEN 204
                     ELSE IF path = "/health" /\ projectId = NoProj THEN 200
                     ELSE routerStatus(projectId)
           room == IF status = 0 THEN idFromName(projectId) ELSE NoRoom
       IN  gEv' = GEvent("router", method, path, projectId, NoKey, status, room, NoKey)
    /\ gAuth' = FALSE
    /\ gVal' = NoVal
    /\ UNCHANGED <<databaseUrl, rows, nextKey, creating, creatingAuth, issued, revokedKeys>>

\* fetch of the key-checking router for a path outside /api-keys; the key comes
\* from ?apiKey= or, failing that, from the x-api-key header
KeyRouterFetch(path, projectId, queryKey, headerKey, storeFails) ==
    /\ UNCHANGED <<uwsVars, bVars, oVars, lVars>>
    /\ LET apiKey == IF queryKey # NoKey THEN queryKey ELSE headerKey
           validates == /\ ~(path = "/health" /\ projectId = NoProj)
                        /\ projectId # NoProj
                        /\ apiKey # NoKey /\ ~shouldSkipValidation(projectId)
                        /\ databaseUrl
           val == IF validates THEN validateApiKeyOutcome(projectId, apiKey, storeFails)
                  ELSE NoVal
           status == IF path = "/health" /\ projectId = NoProj THEN 200
                     ELSE IF projectId = NoProj THEN 400
                     ELSE IF apiKey # NoKey /\ ~shouldSkipValidation(projectId) THEN
                         IF ~databaseUrl THEN 500
                         ELSE IF ~val.valid THEN 403
                         ELSE 0
                     ELSE 0
           room == IF status = 0 THEN idFromName(projectId) ELSE NoRoom
       IN  /\ storeFails => val.queried
           /\ gEv' = GEvent("keyrouter", "GET", path, projectId, apiKey, status, room, NoKey)
           /\ gVal' = val
    /\ gAuth' = FALSE
    /\ UNCHANGED <<databaseUrl, rows, nextKey, creating, creatingAuth, issued, revokedKeys>>

\* POST /api-keys requests between their SELECT and their INSERT
PendingCreates == { w \in Workers : creating[w] # NoProj }

\* POST /api-keys with body {projectId}, up to the existence check of createApiKey
CreateCheck(w, projectId) ==
    /\ UNCHANGED <<uwsVars, bVars, oVars, lVars>>
    /\ creating[w] = NoProj
    /\ LET status == IF ~databaseUrl THEN 500
                     ELSE IF projectId = NoProj THEN 400
                     ELSE IF hasActiveKey(projectId) THEN 500
                     ELSE 0
       IN  /\ status = 0 => nextKey + Cardinality(PendingCreates) <= MaxKeys
           /\ creating' = IF status = 0 THEN [creating EXCEPT ![w] = projectId] ELSE creating
           /\ gEv' = GEvent("create", "POST", "/api-keys", projectId, NoKey, status, NoRoom, NoKey)
    /\ gAuth' \in BOOLEAN
    /\ creatingAuth' = [creatingAuth EXCEPT ![w] = gAuth']
    /\ gVal' = NoVal
    /\ UNCHANGED <<databaseUrl, rows, nextKey, issued, revokedKeys>>

\* the rest of createApiKey: generate, hash, INSERT, and the 201 or 500 response
CreateInsert(w) ==
    /\ UNCHANGED <<uwsVars, bVars, oVars, lVars>>
    /\ creating[w] # NoProj
    /\ LET projectId == creating[w]
           apiKey == generateApiKey(nextKey)
       IN  IF uniqueViolation(projectId) THEN
               /\ rows' = rows
               /\ gEv' = GEvent("create", "POST", "/api-keys", projectId, NoKey, 500, NoRoom, NoKey)
               /\ issued' = issued
           ELSE
               /\ rows' = rows \cup {Row(projectId, apiKey)}
               /\ gEv' = GEvent("create", "POST", "/api-keys", projectId, NoKey, 201, NoRoom, apiKey)
               /\ issued' = issued \cup {[project |-> projectId, key |-> apiKey]}
    /\ nextKey' = nextKey + 1
    /\ creating' = [creating EXCEPT ![w] = NoProj]
    /\ gAuth' = creatingAuth[w]
    /\ gVal' = NoVal
    /\ UNCHANGED <<databaseUrl, creatingAuth, revokedKeys>>

\* the issued keys that are the active key of a project
ActiveIssued(projectId) ==
    { i \in issued : /\ i.project = projectId
                     /\ \E r \in activeRows(projectId) : r.key_hash = hashApiKey(i.key) }

\* variant: DELETE answers without updating the table
RevokeNoUpdate(projectId) ==
    /\ UNCHANGED <<uwsVars, bVars, oVars, lVars>>
    /\ rows' = rows
    /\ gEv' = GEvent("revoke", "DELETE", "/api-keys", projectId, NoKey,
                     IF ~databaseUrl THEN 500
                     ELSE IF hasActiveKey(projectId) THEN 200 ELSE 404, NoRoom, NoKey)
    /\ revokedKeys' = IF databaseUrl THEN revokedKeys \cup ActiveIssued(projectId)
                      ELSE revokedKeys
    /\ gAuth' \in BOOLEAN
    /\ gVal' = NoVal
    /\ UNCHANGED <<databaseUrl, nextKey, creating, creatingAuth, issued>>

\* DELETE /api-keys/:projectId -> revokeApiKey
Revoke(projectId) ==
    /\ UNCHANGED <<uwsVars, bVars, oVars, lVars>>
    /\ IF ~databaseUrl THEN
           /\ rows' = rows
           /\ gEv' = GEvent("revoke", "DELETE", "/api-keys", projectId, NoKey, 500, NoRoom, NoKey)
           /\ revokedKeys' = revokedKeys
       ELSE
           /\ rows' = { IF r.project_id = projectId /\ r.is_active
                        THEN [r EXCEPT !.is_active = FALSE] ELSE r : r \in rows }
           /\ gEv' = GEvent("revoke", "DELETE", "/api-keys", projectId, NoKey,
                            IF hasActiveKey(projectId) THEN 200 ELSE 404, NoRoom, NoKey)
           /\ revokedKeys' = revokedKeys \cup ActiveIssued(projectId)
    /\ gAuth' \in BOOLEAN
    /\ gVal' = NoVal
    /\ UNCHANGED <<databaseUrl, nextKey, creating, creatingAuth, issued>>

\* env.DATABASE_URL is a secret of the deployment: set or not
InitGateway ==
    /\ databaseUrl \in BOOLEAN
    /\ rows = {}
    /\ nextKey = 1
    /\ creating = [w \in Workers |-> NoProj]
    /\ gEv = GEvent("init", "GET", "/health", NoProj, NoKey, 0, NoRoom, NoKey)
    /\ gAuth = FALSE
    /\ creatingAuth = [w \in Workers |-> FALSE]
    /\ gVal = NoVal
    /\ issued = {}
    /\ revokedKeys = {}

NextGateway ==
    \/ \E m \in Methods, path \in Paths, p \in UrlProjectIds : RouterFetch(m, path, p)
    \/ \E path \in Paths, p \in {NoProj, ProjP, ProjQ, Demo}, q \in KeyInputs,
          h \in HeaderKeyInputs, f \in BOOLEAN : KeyRouterFetch(path, p, q, h, f)
    \/ \E w \in Workers, p \in {NoProj, ProjP, ProjQ} : CreateCheck(w, p)
    \/ \E w \in Workers : CreateInsert(w)
    \/ \E p \in {ProjP, ProjQ} : Revoke(p)

\* ============================================================ specifications
\* -------------------------------------------------------- log bucket store
\* The store is described in the specification (section 4.5); the source
\* tree holds no code for it.
MAX_LOGS_PER_HOUR == 1000

\* floor of a timestamp to its UTC hour: the bucket's hourKey
floorUtcHour(t) == t - (t % HourTicks)

StoredLog(id, timestamp) == [id |-> id, timestamp |-> timestamp]

\* variant: append at head without trimming
appendLogNoTrim(logs, log) == << log >> \o logs

\* append at head, trim to the MAX_LOGS_PER_HOUR newest entries
appendLog(logs, log) ==
    LET all == << log >> \o logs
    IN  IF Len(all) > MAX_LOGS_PER_HOUR THEN SubSeq(all, 1, MAX_LOGS_PER_HOUR) ELSE all

\* the bucket stored under hourKey, empty when there is none
bucketLogs(hourKey) ==
    IF hourKey \in DOMAIN logBuckets THEN logBuckets[hourKey] ELSE << >>

\* an inbound application message is parsed: its StoredLog goes to the bucket
\* of the current hour
StoreLog ==
    /\ UNCHANGED <<uwsVars, bVars, oVars, gVars>>
    /\ nextLog <= MaxLogs
    /\ LET log == StoredLog(nextLog, now)
           hourKey == floorUtcHour(log.timestamp)
       IN  logBuckets' = [k \in DOMAIN logBuckets \cup {hourKey} |->
                            IF k = hourKey THEN appendLog(bucketLogs(k), log)
                            ELSE logBuckets[k]]
    /\ nextLog' = nextLog + 1
    /\ UNCHANGED now

\* time passes
Tick ==
    /\ UNCHANGED <<uwsVars, bVars, oVars, gVars>>
    /\ now < MaxTime
    /\ (nextLog - 1) % LogBurst = 0
    /\ now' = now + 1
    /\ UNCHANGED <<logBuckets, nextLog>>

InitLogs ==
    /\ logBuckets = << >>
    /\ now = 0
    /\ nextLog = 1

NextLogs == StoreLog \/ Tick

vars == <<uwsVars, bVars, oVars, gVars, lVars>>

\* every deployment, with or without the DATABASE_URL secret
InitDeployments == InitRoom /\ InitBroadcaster /\ InitOrder /\ InitGateway /\ InitLogs

\* the documented deployment (README: wrangler secret put DATABASE_URL)
Init == InitDeployments /\ databaseUrl

\* the UserWebSocket room
Next == NextRoom
Spec == Init /\ [][Next]_vars

\* the router and the Broadcaster rooms
SpecBroadcaster == Init /\ [][NextBroadcaster]_vars

\* one Broadcaster room with up to MaxClients clients
SpecRouting == Init /\ [][NextRouting]_vars

\* the routers and the API key service
SpecGateway == InitDeployments /\ [][NextGateway]_vars

\* the log bucket store of one room
SpecLogs == Init /\ [][NextLogs]_vars

\* the UserWebSocket room with clients that number their frames
SpecOrder == Init /\ [][NextOrder]_vars

\* one deployment: either the UserWebSocket room or the Broadcaster rooms run
NextEither ==
    \/ (bEv.kind = "init" /\ NextRoom)
    \/ (ev.kind = "init" /\ NextBroadcaster)
SpecEither == Init /\ [][NextEither]_vars

\* the requests and replies of well-behaved clients
FairTexts ==
    { Stringify(e) : e \in { x \in ClientEnvelopes :
                               x.type \in {"graphql_query", "query_response"} } }

\* the UserWebSocket room with upgrades that name a role and clients that send
\* queries and replies only
NextFair ==
    \/ \E h \in BOOLEAN, t \in {"runtime", "agent"} : Upgrade(h, t, TRUE, FALSE)
    \/ \E c \in ConnIds, text \in FairTexts, thr \in BOOLEAN : Message(c, text, thr)
    \/ \E c \in ConnIds : PeerClose(c)
    \/ \E c \in ConnIds : Close(c)
    \/ \E c \in ConnIds : Error(c)
    \/ Alarm

\* that room, with events that keep being handled
FairSpec == Init /\ [][NextFair]_vars /\ WF_vars(NextFair)

\* ==================================================================== claims
\* what the last step was
IsMessage == ev.kind = "message" /\ ev.text.k = "json"
Inbound == Parse(ev.text)
OpenRuntimes == { c \in ConnIds : ctype[c] = "runtime" /\ sock[c] = "OPEN" }
BIsMessage == bEv.kind = "message" /\ bEv.msg.k = "json"
BAdmitted(c) == bState[c] # "NONE"

\* C1: the router sends every request for projectId P to the one room keyed by
\* P (same id, same room; different ids, different rooms), and a frame sent by
\* a client connected under P is delivered only to sockets admitted under P.
C1_ProjectIsolation ==
    /\ \A c, d \in BIds :
         (BAdmitted(c) /\ BAdmitted(d)) => ((bProj[c] = bProj[d]) <=> (bRoom[c] = bRoom[d]))
    /\ bEv.kind = "message" =>
         \A i \in 1..Len(bSent) : bProj[bSent[i].to] = bProj[bEv.conn]

\* a client of one project addressed the id of an OPEN socket of the other
\* project, and nothing was delivered
C1_Witness ==
    /\ BIsMessage
    /\ bEv.msg.toId # NULL
    /\ bEv.msg.toId # bEv.conn
    /\ BAdmitted(bEv.msg.toId)
    /\ BOpen(bEv.msg.toId) /\ bListed[bEv.msg.toId]
    /\ bProj[bEv.msg.toId] # bProj[bEv.conn]
    /\ bSent = << >>

\* C2: at most one connection of role runtime admitted by the room has its
\* socket OPEN.
C2_RuntimeSingleton == Cardinality(OpenRuntimes) <= 1

\* a well-formed runtime upgrade arrives while the registered runtime is OPEN
RuntimeUpgradeOnOpen ==
    /\ ev'.kind = "upgrade"
    /\ ev'.role = "runtime"
    /\ ev'.status \notin {426, 400}
    /\ runtime # NULL
    /\ sock[runtime] = "OPEN"

Forwarded == Delivery(agents[1], Stringify([Inbound EXCEPT !.runtimeId = ev.conn]))

ReplyToRegisteredIssuer ==
    /\ IsMessage /\ Inbound.type \in ReplyTypes
    /\ ctype[ev.conn] = "agent"
    /\ ev.issuer # NULL
    /\ ev.issuer = runtime

\* C5 (as claimed): such a reply is delivered to that runtime exactly once,
\* unchanged, and to no other connection.
C5_ReplyDelivered ==
    ReplyToRegisteredIssuer => sent = << Delivery(runtime, Stringify(Inbound)) >>

\* C5 (amended): it is, provided the runtime's socket is OPEN; otherwise the
\* reply reaches nobody.
C5_ReplyDeliveredWhenOpen ==
    ReplyToRegisteredIssuer =>
        sent = IF sock[runtime] = "OPEN" THEN << Delivery(runtime, Stringify(Inbound)) >>
               ELSE << >>

C5_Witness ==
    /\ ReplyToRegisteredIssuer
    /\ Inbound.type = "query_response"
    /\ Inbound.runtimeId = runtime
    /\ ev.text.ws
    /\ Len(sent) = 1 /\ sent[1].to = runtime /\ Parse(sent[1].text) = Inbound

\* the reply type of a request type
ReplyTypeOf(t) == IF t = "graphql_query" THEN "query_response" ELSE "docs"

\* C6: when the registered runtime sends a graphql_query (get_docs) with
\* requestId r while no agent is registered, exactly one query_response (docs)
\* frame with requestId r and the room's projectId goes to that runtime, nothing
\* goes to anyone else and the message leaves no further request outstanding.
C6_NoAgentFallback ==
    (IsMessage /\ Inbound.type \in QueryTypes /\ ev.conn = runtime /\ Len(agents) = 0) =>
        /\ Len(sent) = 1
        /\ sent[1].to = runtime
        /\ Parse(sent[1].text).type = ReplyTypeOf(Inbound.type)
        /\ Parse(sent[1].text).requestId = Inbound.requestId
        /\ Parse(sent[1].text).projectId = ProjectId
        /\ outstanding[Inbound.requestId] = ev.issuer

\* the registered runtime's graphql_query r was accepted and forwarded
Accepted(c, r) ==
    /\ IsMessage /\ Inbound.type = "graphql_query" /\ Inbound.requestId = r
    /\ ev.conn = c /\ c = runtime
    /\ Len(sent) = 1 /\ Parse(sent[1].text).type = "graphql_query"

\* connection c is sent a response or an error for request r
Answered(c, r) ==
    \E i \in 1..Len(sent) :
        /\ sent[i].to = c
        /\ Parse(sent[i].text).type \in {"query_response", "error"}
        /\ Parse(sent[i].text).requestId = r

C8_StaleReplyDropped ==
    (IsMessage /\ Inbound.type \in ReplyTypes /\ ctype[ev.conn] = "agent"
       /\ ev.issuer # NULL /\ ev.wasRuntime
       /\ runtime # NULL /\ runtime # ev.issuer) =>
        \A i \in 1..Len(sent) :
            ~(sent[i].to = runtime /\ Parse(sent[i].text).requestId = Inbound.requestId)

C10_PingPong ==
    (IsMessage /\ Inbound.type = "ping" /\ sock[ev.conn] = "OPEN" /\ ~done[ev.conn]) =>
        sent = << Delivery(ev.conn,
                    Stringify(Envelope("pong", NULL, NULL, NoField, NoField, NoField,
                                       NoField, NULL))) >>

\* the tables and sockets of the UserWebSocket room
roomState == <<runtime, agents, ctype, sock, done, nextId, alarm>>

\* C11: a well-formed inbound frame of type error, or of a type outside the
\* dispatch table, makes the room send no frame to any socket and leaves the
\* room's tables, sockets and alarm as they were.
C11_NoEcho ==
    [][(ev'.kind = "message" /\ ev'.text.k = "json"
          /\ Parse(ev'.text).type \notin (QueryTypes \cup ReplyTypes \cup {"ping"}))
        => (sent' = << >> /\ UNCHANGED roomState /\ UNCHANGED outstanding)]_vars

\* a registered agent with an OPEN socket sent a frame of an unknown type
\* while a runtime was connected, and nothing was sent
C11_Witness ==
    /\ IsMessage /\ Inbound.type = "other"
    /\ IsAgent(ev.conn) /\ sock[ev.conn] = "OPEN"
    /\ runtime # NULL /\ sock[runtime] = "OPEN"
    /\ sent = << >>

\* the text of the last message is not JSON
NotJson == ev'.text.k \in {"garbage", "empty"}
BNotJson == bEv'.msg.k \in {"garbage", "empty"}

\* C12: when a registered client with an OPEN socket sends a frame that is not
\* valid JSON, the room (UserWebSocket or Broadcaster) sends exactly one error
\* envelope, to that sender, closes no socket and removes or adds no connection
\* (the Broadcaster only re-reads its table from the accepted sockets).
C12_MalformedInput ==
    [][/\ (ev'.kind = "message" /\ NotJson
             /\ findConnection(ev'.conn) # NULL /\ sock[ev'.conn] = "OPEN")
          => /\ Len(sent') = 1
             /\ sent'[1].to = ev'.conn
             /\ Parse(sent'[1].text).type = "error"
             /\ UNCHANGED roomState
       /\ (bEv'.kind = "message" /\ BNotJson)
          => /\ bSent' = << Delivery(bEv'.conn, BSystem("error")) >>
             /\ UNCHANGED <<bRoom, bProj, bType, bState, bListed>>
             /\ bClients' = [bClients EXCEPT ![bEv'.room] = syncClientsFromWebSockets(bEv'.room)]
      ]_vars

C14_IdleAlarmScheduling ==
    ev.kind \in {"close", "error"} => (alarm <=> (runtime = NULL /\ Len(agents) = 0))

\* the close of the last registered client left the room empty, alarm scheduled
C14_Witness ==
    /\ ev.kind = "close" /\ ctype[ev.conn] \in {"runtime", "agent"}
    /\ runtime = NULL /\ Len(agents) = 0
    /\ alarm

\* C15: a successful client connect and every inbound message cancel the idle
\* alarm: in the state such an event leaves behind no alarm is pending.
C15_IdleAlarmCancelled ==
    /\ (ev.kind = "upgrade" /\ ev.status = 101) => ~alarm
    /\ ev.kind = "message" => ~alarm

\* ^[A-Za-z0-9_-]{1,64}$ over the characters in use
WellFormedProjectId(p) ==
    /\ Len(p) \in 1..64
    /\ \A i \in 1..Len(p) : p[i] \in IdChars

\* C16: the front router answers a non-OPTIONS request (other than /health
\* without projectId) that has no projectId with 400, one whose projectId does
\* not match the pattern with 400, in both cases without contacting a room; it
\* contacts a room only for a present, well-formed projectId.
C16_FrontRouterAdmission ==
    gEv.kind = "router" =>
        /\ (gEv.method # "OPTIONS" /\ ~(gEv.path = "/health" /\ gEv.project = NoProj)) =>
               /\ gEv.project = NoProj => (gEv.status = 400 /\ gEv.room = NoRoom)
               /\ ~WellFormedProjectId(gEv.project) => (gEv.status = 400 /\ gEv.room = NoRoom)
        /\ gEv.room # NoRoom =>
               /\ gEv.project # NoProj /\ WellFormedProjectId(gEv.project)
               /\ gEv.room = idFromName(gEv.project)

\* a 65-character projectId was refused with 400
C16_Witness ==
    /\ gEv.kind = "router" /\ gEv.method = "GET" /\ gEv.path = "/websocket"
    /\ gEv.project = LongProj
    /\ gEv.status = 400 /\ gEv.room = NoRoom

KeySupplied == gEv.apiKey # NoKey
Bypassed == gEv.project \in {Demo, DemoProd}
KeyValid == gVal.called /\ gVal.valid        \* validateApiKey returned valid
KeyRouted == gEv.kind = "keyrouter" /\ gEv.project # NoProj

\* C17 as stated: the key-checking router forwards a request with projectId P
\* iff no key is supplied, P is demo or demo-prod, or the key validates; a
\* supplied key that does not validate for another project is answered 403
\* without contacting the room.
C17_OptionalKeyCheck ==
    KeyRouted =>
        /\ gEv.room # NoRoom <=> (~KeySupplied \/ Bypassed \/ KeyValid)
        /\ (KeySupplied /\ ~Bypassed /\ ~KeyValid) => (gEv.status = 403 /\ gEv.room = NoRoom)

\* C17 amended: as above where DATABASE_URL is configured; without it a supplied
\* key for a project outside the bypass set is answered 500 and the room is
\* not contacted.
C17_OptionalKeyCheckConfigured ==
    KeyRouted =>
        /\ gEv.room # NoRoom <=> (~KeySupplied \/ Bypassed \/ (databaseUrl /\ KeyValid))
        /\ gEv.room # NoRoom => gEv.room = idFromName(gEv.project)
        /\ (KeySupplied /\ ~Bypassed /\ databaseUrl /\ ~KeyValid) =>
               (gEv.status = 403 /\ gEv.room = NoRoom)
        /\ (KeySupplied /\ ~Bypassed /\ ~databaseUrl) =>
               (gEv.status = 500 /\ gEv.room = NoRoom)

\* a request carrying the project's active key was forwarded to its room
C17_Witness ==
    /\ KeyRouted /\ gEv.project = ProjP
    /\ KeySupplied /\ KeyValid
    /\ gEv.room = idFromName(ProjP)

\* C18: a POST /api-keys step for a project that has an active row ends the
\* request with an error: no row is added or changed (the existing key stays
\* active and keeps validating), no plaintext is returned, no insert is pending.
C18_CreateWhileActive ==
    [][(gEv'.kind = "create" /\ activeRows(gEv'.project) # {})
       => /\ gEv'.status = 500
          /\ rows' = rows
          /\ gEv'.plaintext = NoKey
          /\ \A w \in Workers : creating'[w] # NoProj => creating'[w] = creating[w]]_vars

\* a create for a project with an active key was refused
C18_Witness ==
    /\ gEv.kind = "create" /\ gEv.status = 500 /\ databaseUrl
    /\ activeRows(gEv.project) # {}
    /\ PendingCreates = {}

\* C19: after a successful create and a successful revoke for a project (its
\* row is there, inactive), a create for the same project that reaches its
\* response succeeds: 201, one more row, and the returned plaintext validates.
C19_CreateRevokeCreate ==
    [][(/\ gEv'.kind = "create" /\ gEv'.status # 0 /\ databaseUrl
        /\ gEv'.project # NoProj
        /\ activeRows(gEv'.project) = {}
        /\ \E r \in rows : r.project_id = gEv'.project /\ ~r.is_active)
       => /\ gEv'.status = 201
          /\ gEv'.plaintext # NoKey
          /\ Cardinality(rows') = Cardinality(rows) + 1
          /\ \E r \in rows' : /\ r.project_id = gEv'.project /\ r.is_active
                              /\ r.key_hash = hashApiKey(gEv'.plaintext)]_vars

\* C20: in every state of the key store each project has at most one active
\* row, whatever the interleaving of creates (check and insert as separate
\* steps) and revokes.
C20_SingleActiveKey ==
    \A p \in {ProjP, ProjQ} : Cardinality(activeRows(p)) <= 1

\* two creates for one project passed the existence check; the first has
\* inserted its row and the second is about to insert
C20_Witness ==
    \E w \in Workers :
        /\ creating[w] # NoProj
        /\ activeRows(creating[w]) # {}
        /\ gEv.kind = "create" /\ gEv.status = 201 /\ gEv.project = creating[w]

\* C21: a validateApiKey call returns valid exactly when the key starts with
\* sa_live_ or sa_test_ and the table has an active row of that project with
\* the key's hash; a key issued for another project is invalid, a key with a
\* bad prefix is refused without a query, and a failing query gives invalid.
C21_KeyValidation ==
    gVal.called =>
        LET prefixOk == gEv.apiKey.prefix \in {"sa_live_", "sa_test_"}
            stored == \E r \in rows : /\ r.project_id = gEv.project
                                      /\ r.key_hash = hashApiKey(gEv.apiKey)
                                      /\ r.is_active
        IN  /\ ~gVal.failed => (gVal.valid <=> (prefixOk /\ stored))
            /\ gVal.failed => ~gVal.valid
            /\ ~prefixOk => ~gVal.queried
            /\ (\E i \in issued : i.key = gEv.apiKey /\ i.project # gEv.project) => ~gVal.valid

\* the active key of one project was presented for another and found invalid
C21_Witness ==
    /\ gVal.called /\ gVal.queried /\ ~gVal.failed /\ ~gVal.valid
    /\ \E i \in issued : /\ i.key = gEv.apiKey /\ i.project # gEv.project
                         /\ i \in ActiveIssued(i.project)

PresentedKey == [project |-> gEv.project, key |-> gEv.apiKey]

C23_ServiceKeyProtection ==
    [][(gEv'.kind \in {"create", "revoke"} /\ ~gAuth')
       => (gEv'.status = 401 /\ rows' = rows /\ creating' = creating)]_vars

\* the message step of a Broadcaster room and who it delivered to
BRegistered(c) == InSeq(bClients[bEv.room], c)
BReceivers == { bSent[i].to : i \in 1..Len(bSent) }
BOthersOpen == { c \in BIds : BRegistered(c) /\ BOpen(c) /\ c # bEv.conn }
BAdminCopies == { c \in BOthersOpen : bType[c] = "admin" }
BRelayed == \A i \in 1..Len(bSent) : bSent[i].text = Stamped(bEv.conn, bEv.msg)

\* C24: a message with to.id = X is delivered to X when X is registered with an
\* OPEN socket, and to nobody else except the admins' monitoring copies; when
\* X is not registered or not OPEN only admins receive anything and no error
\* frame is sent.
C24_RouteByClientId ==
    (BIsMessage /\ bEv.msg.toId # NULL) =>
        LET X == bEv.msg.toId
            reachable == BRegistered(X) /\ BOpen(X)
        IN  /\ reachable => X \in BReceivers
            /\ BReceivers \subseteq ({X} \cup BAdminCopies)
            /\ ~reachable => BReceivers \subseteq BAdminCopies
            /\ BRelayed

\* of three open clients one addressed another by id; only that one got the frame
C24_Witness ==
    /\ BIsMessage /\ bEv.msg.toId # NULL /\ bEv.msg.toId # bEv.conn
    /\ Cardinality(BOthersOpen) = 2
    /\ BAdminCopies = {}
    /\ BReceivers = {bEv.msg.toId}

\* C25: a message with to.type = T and no to.id is delivered exactly to the
\* registered OPEN clients of type T other than the sender, plus the admins'
\* monitoring copies; the sender does not receive it.
C25_RouteByClientType ==
    (BIsMessage /\ bEv.msg.toId = NULL /\ bEv.msg.toType # NoField) =>
        /\ BReceivers = { c \in BOthersOpen : bType[c] = bEv.msg.toType } \cup BAdminCopies
        /\ bEv.conn \notin BReceivers
        /\ BRelayed

\* a client of the addressed type sent the message: another client of that
\* type and an admin received it, the sender did not
C25_Witness ==
    /\ BIsMessage /\ bEv.msg.toId = NULL /\ bEv.msg.toType = "runtime"
    /\ bType[bEv.conn] = "runtime"
    /\ \E c, a \in BOthersOpen : /\ bType[c] = "runtime" /\ bType[a] = "admin"
                                 /\ BReceivers = {c, a}

C27_BroadcastBypassesAdmins ==
    (BIsMessage /\ bEv.msg.toId = NULL /\ bEv.msg.toType = NoField) =>
        \A c \in BReceivers : bType[c] # "admin"

C29_NoSelfDeliveryToAdmins ==
    (BIsMessage /\ bType[bEv.conn] = "admin") => bEv.conn \notin BReceivers

\* C30: every frame delivered for a client carries from.id = the id the server
\* gave the sender, whatever from the submitted frame had.
C30_SenderIdentity ==
    BIsMessage =>
        \A i \in 1..Len(bSent) : bSent[i].text.hasFrom /\ bSent[i].text.fromId = bEv.conn

\* C33: a check_agents frame is answered with exactly one frame, an
\* agent_status_response, sent to the asking connection.
C33_CheckAgents ==
    (IsMessage /\ Inbound.type = "check_agents" /\ sock[ev.conn] = "OPEN")
        => /\ Len(sent) = 1
           /\ sent[1].to = ev.conn
           /\ Parse(sent[1].text).type = "agent_status_response"

\* C35: the close (or error) event of a connection that is not the registered
\* runtime leaves the registered runtime in its slot and schedules no idle alarm
\* while that runtime is registered.
C35_DisconnectRemovesOnlyDeparting ==
    [][(ev'.kind \in {"close", "error"} /\ runtime # NULL /\ ev'.conn # runtime)
         => (runtime' = runtime /\ ~alarm')]_vars

\* C36: a graphql_query or get_docs that finds the agent chosen for it with a
\* socket that is not OPEN removes that agent from the agents map, and no frame
\* of the request reaches an agent whose socket is not OPEN.
C36_StaleAgentsSkipped ==
    [][(/\ ev'.kind = "message" /\ ev'.text.k = "json"
        /\ Parse(ev'.text).type \in QueryTypes
        /\ Len(agents) >= 1 /\ sock[agents[1]] # "OPEN")
         => /\ \A i \in 1..Len(agents') : agents'[i] # agents[1]
            /\ \A i \in 1..Len(sent') : sock[sent'[i].to] = "OPEN"]_vars

\* C37: a graphql_query or get_docs from a connection that is not a runtime is
\* forwarded to nobody, and a query_response or docs from a connection that is
\* not an agent is delivered to nobody.
C37_SenderRoleEnforced ==
    IsMessage =>
        /\ (Inbound.type \in QueryTypes /\ ctype[ev.conn] # "runtime")
              => \A i \in 1..Len(sent) : Parse(sent[i].text).type \notin QueryTypes
        /\ (Inbound.type \in ReplyTypes /\ ctype[ev.conn] # "agent")
              => \A i \in 1..Len(sent) : Parse(sent[i].text).type \notin ReplyTypes

\* C38: an upgrade answered with a status other than 101 leaves the runtime
\* slot and the agents map as they were and closes no socket.
C38_RejectedUpgradeNoEffect ==
    [][(ev'.kind = "upgrade" /\ ev'.status # 101)
         => /\ runtime' = runtime
            /\ agents' = agents
            /\ \A c \in ConnIds : sock[c] = "OPEN" => sock'[c] = "OPEN"]_vars

\* the clients of the room of the last event whose socket is accepted and OPEN
BConnectedOpen == { c \in BIds : bRoom[c] = bEv.room /\ bListed[c] /\ BOpen(c) }

\* C31: when a Broadcaster client's close is handled, every remaining client
\* with an OPEN socket receives exactly one client_left system frame.
C31_DepartureNotification ==
    bEv.kind = "close" =>
        \A c \in BConnectedOpen \ {bEv.conn} :
            Cardinality({ i \in 1..Len(bSent) :
                            bSent[i].to = c /\ bSent[i].text = BSystem("client_left") }) = 1

C40_CleanupOnlyWhenEmpty ==
    [][/\ (bEv'.kind = "close" /\ ~bAlarm[bEv'.room] /\ bAlarm'[bEv'.room])
            => \A c \in BIds : ~(bRoom'[c] = bEv'.room /\ bListed'[c])
       /\ \A r \in Rooms : healthClientCount(r)' = Cardinality(getWebSockets(r))']_vars

\* the frames the last event gives in a room that is never evicted from memory
BKeptFrames ==
    IF bEv'.kind = "connect" /\ bEv'.status = 101
    THEN << Delivery(bEv'.conn, BWelcome(Len(bKept'[bEv'.room]))) >>
    ELSE IF bEv'.kind = "message" /\ bEv'.msg.k = "json"
    THEN BDeliverAll(Recipients(bKept'[bEv'.room], bEv'.conn, bEv'.msg),
                     Stamped(bEv'.conn, bEv'.msg))
    ELSE IF bEv'.kind = "message" /\ bEv'.msg.k = "garbage"
    THEN bSendError(bKept'[bEv'.room], bEv'.conn)
    ELSE << >>

\* the frames of a step that went to socket c, in order
FramesTo(seq, c) == SelectSeq(seq, LAMBDA d : d.to = c)

\* C32: each socket receives from each event the frames it receives from the
\* same events in a room whose table is never dropped, and the table a
\* webSocketMessage leaves behind holds exactly the ids of the accepted sockets.
C32_HibernationTransparent ==
    [][/\ \A c \in BIds : FramesTo(bSent', c) = FramesTo(BKeptFrames, c)
       /\ bEv'.kind = "message"
            => \A c \in BIds : InSeq(bClients'[bEv'.room], c)
                                  <=> (bRoom'[c] = bEv'.room /\ bListed'[c])]_vars

\* the entries of a bucket are in the order newest first
NewestFirst(logs) ==
    \A i \in 1..(Len(logs) - 1) :
        logs[i].id > logs[i + 1].id /\ logs[i].timestamp >= logs[i + 1].timestamp

\* C34: every stored bucket holds at most 1000 entries, newest first, whose
\* timestamps all floor to the bucket's hour key, and storing an entry in a
\* bucket that holds 1000 drops the oldest entry and keeps the others.
C34_LogBucketBound ==
    [][/\ \A k \in DOMAIN logBuckets' :
            /\ Len(logBuckets'[k]) <= 1000
            /\ NewestFirst(logBuckets'[k])
            /\ \A i \in 1..Len(logBuckets'[k]) :
                   floorUtcHour(logBuckets'[k][i].timestamp) = k
       /\ \A k \in DOMAIN logBuckets :
            (Len(logBuckets[k]) = 1000 /\ logBuckets'[k] # logBuckets[k])
                => /\ logBuckets'[k][1].id = nextLog
                   /\ SubSeq(logBuckets'[k], 2, 1000) = SubSeq(logBuckets[k], 1, 999)]_vars

\* a bucket of two different timestamps is full and has lost its first entry
C34_Witness ==
    \E k \in DOMAIN logBuckets :
        /\ Len(logBuckets[k]) = 1000
        /\ logBuckets[k][1000].id = 2
        /\ logBuckets[k][1].timestamp # logBuckets[k][1000].timestamp

====
